---- MODULE Spec2Model ----
(***************************************************************************)
(* Order pricing and settlement of the e-commerce API                      *)
(* (order.controller.js: calculateOrder, placeOrder, updatePaymentStatus;  *)
(* cart.controller.js: addToCart).                                         *)
(*                                                                         *)
(* Every request handler is a process that runs in one of the request      *)
(* slots Reqs.  A handler is cut at its awaits: each prisma query outside  *)
(* a transaction is one step, and the callback of prisma.$transaction is   *)
(* one step (its statements are relative updates under row locks, so       *)
(* their joint effect is the one applied at COMMIT; an abort applies       *)
(* none).                                                                  *)
(*                                                                         *)
(* Money: a DECIMAL(10,2) column holds an integer number of hundredths     *)
(* ("cents").  A JavaScript number computed by a handler is held as an     *)
(* integer number of 1/Scale cents, so that percentage/100 is exact;       *)
(* ToDecimal2 is the rounding the database applies when such a number is   *)
(* written to a DECIMAL(10,2) column.                                      *)
(***************************************************************************)
EXTENDS Integers, Sequences, FiniteSets, TLC

VARIABLES products, wallet, couponUsage, userCoupons, carts,
          orders, transactions, reqs, out, nCalls, compensated, rt

dbvars == <<products, wallet, couponUsage, userCoupons, carts, orders, transactions>>
vars == <<products, wallet, couponUsage, userCoupons, carts,
          orders, transactions, reqs, out, nCalls, compensated, rt>>

----------------------------------------------------------------------------
(* Bounds of the model *)

\* MaxCalls: the calls of a run that write or go on to write (addToCart,
\* placeOrder past its cart check, updatePaymentStatus past its order
\* check).  MaxQty: the largest quantity of one addToCart.
MaxCalls == 4
MaxQty == 2

----------------------------------------------------------------------------
(* Data the model runs on *)

Users == {"u1", "u2"}
Products == {"p1", "p2"}
Coupons == {"WELCOME10", "FLAT"}
\* Request slots: two handlers can be in flight at once.
Reqs == {1, 2}

NULL == 0 - 1
NoCode == ""
Scale == 100
Now == 5

\* Prices and balances in cents.  The amounts the model computes from
\* them that fall on half a cent (1.25 at 10%: 0.125 and 1.125) are binary
\* fractions, so the JavaScript doubles of the handlers hold them exactly.
InitPrice == [p \in Products |-> IF p = "p1" THEN 125 ELSE 200]
InitStock == [p \in Products |-> IF p = "p1" THEN 1 ELSE 2]
InitWallet == [u \in Users |-> IF u = "u1" THEN 300 ELSE 0]

\* The coupon rows.  WELCOME10 is the coupon user registration creates;
\* FLAT is a FIXED coupon with a global limit.
CouponRow(c) ==
    IF c = "WELCOME10"
    THEN [id |-> c, discountType |-> "PERCENTAGE", discountValue |-> 10,
          minPurchase |-> 0, maxDiscount |-> 10000,
          usageLimitPerUser |-> 1, totalUsageLimit |-> NULL,
          validFrom |-> 0, validTo |-> Now, isActive |-> TRUE]
    ELSE [id |-> c, discountType |-> "FIXED", discountValue |-> 50,
          minPurchase |-> NULL, maxDiscount |-> NULL,
          usageLimitPerUser |-> NULL, totalUsageLimit |-> 1,
          validFrom |-> 0, validTo |-> Now + 1, isActive |-> TRUE]

CouponCodes == {NoCode, "BOGUS"} \cup Coupons
WalletInputs == {NULL, 0, 100}
\* walletPointsToUse is read only when useWalletPoints is set.
WalletChoices == {<<FALSE, NULL>>} \cup {<<TRUE, w>> : w \in WalletInputs}

----------------------------------------------------------------------------
(* Arithmetic *)

Min(a, b) == IF a < b THEN a ELSE b
Max(a, b) == IF a > b THEN a ELSE b

\* A JavaScript number (in 1/Scale cents) written to a DECIMAL(10,2) column:
\* rounded to cents, halves away from zero.
ToDecimal2(x) ==
    IF x >= 0 THEN (2 * x + Scale) \div (2 * Scale)
    ELSE 0 - ((2 * (0 - x) + Scale) \div (2 * Scale))

\* parseFloat of a DECIMAL(10,2) value: cents to a JavaScript number.
ParseFloat(d) == d * Scale

RECURSIVE SumOver(_, _)
SumOver(S, f) ==
    IF S = {} THEN 0
    ELSE LET x == CHOOSE y \in S : TRUE IN f[x] + SumOver(S \ {x}, f)

----------------------------------------------------------------------------
(* Pricing, as calculateOrder and placeOrder compute it *)

Truthy(n) == n # NULL /\ n # 0

\* prisma.cart.findMany({where: {userId}, include: {product}}): the cart
\* lines of a user joined with the product rows as they are now.
CartItems(u) ==
    [p \in {q \in Products : carts[u][q] > 0} |->
        [quantity |-> carts[u][p], price |-> products[p].price,
         stock |-> products[p].stock, isActive |-> products[p].isActive]]

\* The check of one cart line in the validation loop.
LineError(item) ==
    IF ~item.isActive THEN "ProductUnavailable"
    ELSE IF item.stock < item.quantity THEN "InsufficientStock"
    ELSE "none"

\* findMany has no orderBy: the loop meets the lines in an order the
\* database picks, so the error returned is that of any failing line.
CartErrors(items) ==
    IF DOMAIN items = {} THEN {"EmptyCart"}
    ELSE {LineError(items[p]) : p \in DOMAIN items} \ {"none"}

Subtotal(items) ==
    ParseFloat(SumOver(DOMAIN items,
                       [p \in DOMAIN items |-> items[p].price * items[p].quantity]))

\* prisma.coupon.findUnique returned null.
NoCoupon == [found |-> FALSE]

\* Coupon checks made on the coupon row c alone, in calculateOrder (usage
\* is the row's currentUsageCount).
CalcCouponChecks(c, subtotal, usage) ==
    IF c = NoCoupon THEN "CouponNotFound"
    ELSE IF ~c.isActive THEN "CouponInactive"
    ELSE IF Now < c.validFrom \/ Now > c.validTo THEN "CouponExpired"
    ELSE IF c.minPurchase # NULL /\ subtotal < ParseFloat(c.minPurchase)
         THEN "MinPurchaseNotMet"
    ELSE IF Truthy(c.totalUsageLimit) /\ usage >= c.totalUsageLimit
         THEN "CouponUsageLimitReached"
    ELSE "none"

CalcCouponError(code, subtotal, usage) ==
    CalcCouponChecks(IF code \in Coupons THEN CouponRow(code) ELSE NoCoupon,
                     subtotal, usage)

\* The same checks in placeOrder: a missing and an inactive coupon share
\* one response.
PlaceCouponChecks(c, subtotal, usage) ==
    IF c = NoCoupon THEN "InvalidOrInactiveCoupon"
    ELSE IF ~c.isActive THEN "InvalidOrInactiveCoupon"
    ELSE IF Now < c.validFrom \/ Now > c.validTo THEN "CouponExpired"
    ELSE IF c.minPurchase # NULL /\ subtotal < ParseFloat(c.minPurchase)
         THEN "MinPurchaseNotMet"
    ELSE IF Truthy(c.totalUsageLimit) /\ usage >= c.totalUsageLimit
         THEN "CouponUsageLimitReached"
    ELSE "none"

PlaceCouponError(code, subtotal, usage) ==
    PlaceCouponChecks(IF code \in Coupons THEN CouponRow(code) ELSE NoCoupon,
                      subtotal, usage)

\* The per-user check of coupon c on the UserCoupon row (uc.exists =
\* FALSE: no row).
UserCouponCheck(c, uc) ==
    IF uc.exists /\ Truthy(c.usageLimitPerUser)
                 /\ uc.usageCount >= c.usageLimitPerUser
    THEN "UserCouponLimitReached"
    ELSE "none"

UserCouponError(code, uc) == UserCouponCheck(CouponRow(code), uc)

\* The discount of coupon c on subtotal.
UncappedDiscount(c, subtotal) ==
    IF c.discountType = "PERCENTAGE"
    THEN (subtotal * c.discountValue) \div 100
    ELSE ParseFloat(c.discountValue)
CouponDiscount(c, subtotal) ==
    LET raw == IF c.discountType = "PERCENTAGE"
               THEN LET d == (subtotal * c.discountValue) \div 100 IN
                    IF c.maxDiscount # NULL /\ d > ParseFloat(c.maxDiscount)
                    THEN ParseFloat(c.maxDiscount) ELSE d
               ELSE ParseFloat(c.discountValue)
    IN Min(raw, subtotal)

\* Wallet points as [err, used].  NoWalletChecks: the automatic amount
\* whatever was asked; CalcWallet: the wallet points of calculateOrder.
NoWalletChecks(useWalletPoints, walletPointsToUse, available, amountAfterCoupon) ==
    [err |-> "none",
     used |-> IF useWalletPoints THEN Min(available, amountAfterCoupon) ELSE 0]
CalcWallet(useWalletPoints, walletPointsToUse, available, amountAfterCoupon) ==
    IF ~useWalletPoints THEN [err |-> "none", used |-> 0]
    ELSE IF walletPointsToUse # NULL
    THEN IF ParseFloat(walletPointsToUse) > available
         THEN [err |-> "InsufficientWalletBalance", used |-> 0]
         ELSE IF ParseFloat(walletPointsToUse) > amountAfterCoupon
         THEN [err |-> "WalletExceedsPayable", used |-> 0]
         ELSE [err |-> "none", used |-> ParseFloat(walletPointsToUse)]
    ELSE IF available > 0
    THEN [err |-> "none", used |-> Min(available, amountAfterCoupon)]
    ELSE [err |-> "none", used |-> 0]

\* Wallet points of placeOrder: the explicit amount is tested for
\* truthiness, and the automatic amount is taken whatever the balance.
PlaceWallet(useWalletPoints, walletPointsToUse, available, amountAfterCoupon) ==
    IF ~useWalletPoints THEN [err |-> "none", used |-> 0]
    ELSE IF Truthy(walletPointsToUse)
    THEN IF ParseFloat(walletPointsToUse) > available
         THEN [err |-> "InsufficientWalletBalance", used |-> 0]
         ELSE IF ParseFloat(walletPointsToUse) > amountAfterCoupon
         THEN [err |-> "WalletExceedsPayable", used |-> 0]
         ELSE [err |-> "none", used |-> ParseFloat(walletPointsToUse)]
    ELSE [err |-> "none", used |-> Min(available, amountAfterCoupon)]

FinalAmount(amountAfterCoupon, walletPointsUsed) ==
    Max(0, amountAfterCoupon - walletPointsUsed)

\* The coupon stage of calculateOrder on a coupon row (or NoCoupon), the
\* subtotal, the row's currentUsageCount and the UserCoupon row: the error
\* it answers, or "ok" and the discount.
CalcCoupon(c, subtotal, usage, uc) ==
    LET e == CalcCouponChecks(c, subtotal, usage)
        ue == IF e = "none" THEN UserCouponCheck(c, uc) ELSE "none"
    IN IF e # "none" THEN [kind |-> e, couponDiscount |-> 0]
       ELSE IF ue # "none" THEN [kind |-> ue, couponDiscount |-> 0]
       ELSE [kind |-> "ok", couponDiscount |-> CouponDiscount(c, subtotal)]

\* The coupon stage of placeOrder.
PlaceCoupon(c, subtotal, usage, uc) ==
    LET e == PlaceCouponChecks(c, subtotal, usage)
        ue == IF e = "none" THEN UserCouponCheck(c, uc) ELSE "none"
    IN IF e # "none" THEN [kind |-> e, couponDiscount |-> 0]
       ELSE IF ue # "none" THEN [kind |-> ue, couponDiscount |-> 0]
       ELSE [kind |-> "ok", couponDiscount |-> CouponDiscount(c, subtotal)]

----------------------------------------------------------------------------
(* The database as one value, for the statements of a transaction *)

DB == [products |-> products, wallet |-> wallet, couponUsage |-> couponUsage,
       userCoupons |-> userCoupons, carts |-> carts, orders |-> orders,
       transactions |-> transactions]

EmptyCart == [p \in Products |-> 0]
NoUserCoupon == [exists |-> FALSE, usageCount |-> 0]

\* tx.order.create with its nested orderItems: the amounts are written to
\* DECIMAL(10,2) columns, the item price is the price read with the cart.
\* (TxCreateOrderLive: the same with the item price read again from the
\* product row.)
TxCreateOrderLive(d, l) ==
    [d EXCEPT !.orders = Append(@,
        [id |-> Len(d.orders) + 1,
         userId |-> l.user,
         couponId |-> IF l.couponCode \in Coupons THEN l.couponCode ELSE NoCode,
         totalAmount |-> ToDecimal2(l.subtotal),
         couponDiscount |-> ToDecimal2(l.couponDiscount),
         walletPointsUsed |-> ToDecimal2(l.walletPointsUsed),
         finalAmount |-> ToDecimal2(l.finalAmount),
         paymentStatus |-> "PENDING",
         orderStatus |-> "PENDING",
         orderItems |-> [p \in DOMAIN l.cartItems |->
                            [quantity |-> l.cartItems[p].quantity,
                             price |-> d.products[p].price]]])]
TxCreateOrder(d, l) ==
    [d EXCEPT !.orders = Append(@,
        [id |-> Len(d.orders) + 1,
         userId |-> l.user,
         couponId |-> IF l.couponCode \in Coupons THEN l.couponCode ELSE NoCode,
         totalAmount |-> ToDecimal2(l.subtotal),
         couponDiscount |-> ToDecimal2(l.couponDiscount),
         walletPointsUsed |-> ToDecimal2(l.walletPointsUsed),
         finalAmount |-> ToDecimal2(l.finalAmount),
         paymentStatus |-> "PENDING",
         orderStatus |-> "PENDING",
         orderItems |-> [p \in DOMAIN l.cartItems |->
                            [quantity |-> l.cartItems[p].quantity,
                             price |-> l.cartItems[p].price]]])]

\* tx.product.update({data: {stock: {decrement: quantity}}}) for every line.
TxDeductStock(d, l) ==
    [d EXCEPT !.products = [p \in Products |->
        IF p \in DOMAIN l.cartItems
        THEN [@[p] EXCEPT !.stock = @ - l.cartItems[p].quantity]
        ELSE @[p]]]

\* tx.user.update({data: {walletPoints: {decrement: walletPointsUsed}}}).
TxDeductWallet(d, l) ==
    IF l.walletPointsUsed > 0
    THEN [d EXCEPT !.wallet[l.user] = ToDecimal2(ParseFloat(@) - l.walletPointsUsed)]
    ELSE d

\* tx.coupon.update (increment) and tx.userCoupon.upsert.
TxCouponUsage(d, l) ==
    IF l.couponCode \in Coupons
    THEN [d EXCEPT !.couponUsage[l.couponCode] = @ + 1,
                   !.userCoupons[l.user][l.couponCode] =
                       IF @.exists THEN [@ EXCEPT !.usageCount = @ + 1]
                       ELSE [exists |-> TRUE, usageCount |-> 1]]
    ELSE d

\* tx.cart.deleteMany({where: {userId}}).
TxClearCart(d, l) == [d EXCEPT !.carts[l.user] = EmptyCart]

\* tx.transaction.create for the order created by this transaction.
TxCreateTransaction(d, l) ==
    [d EXCEPT !.transactions = Append(@,
        [orderId |-> Len(d.orders), paymentStatus |-> "PENDING"])]

\* The first k statements of placeOrder's transaction, applied in order.
PlaceOrderStatements(d, l, k) ==
    LET d1 == IF k >= 1 THEN TxCreateOrder(d, l) ELSE d
        d2 == IF k >= 2 THEN TxDeductStock(d1, l) ELSE d1
        d3 == IF k >= 3 THEN TxDeductWallet(d2, l) ELSE d2
        d4 == IF k >= 4 THEN TxCouponUsage(d3, l) ELSE d3
        d5 == IF k >= 5 THEN TxClearCart(d4, l) ELSE d4
        d6 == IF k >= 6 THEN TxCreateTransaction(d5, l) ELSE d5
    IN d6

PlaceOrderLen == 6

\* What prisma.$transaction leaves when its callback throws after some
\* statements (partial): the database as it was (before).
PartialCommit(before, partial) == partial
Rollback(before, partial) == before

\* tx.order.update: the status pair, whatever the order's current status.
TxUpdateOrder(d, oid, paymentStatus) ==
    [d EXCEPT !.orders[oid] =
        [@ EXCEPT !.paymentStatus = paymentStatus,
                  !.orderStatus = IF paymentStatus = "SUCCESS"
                                  THEN "CONFIRMED" ELSE "CANCELLED"]]

\* tx.transaction.updateMany({where: {orderId}}).
KeepTransactions(d, oid, paymentStatus) == d
TxUpdateTransactions(d, oid, paymentStatus) ==
    [d EXCEPT !.transactions = [i \in DOMAIN @ |->
        IF @[i].orderId = oid THEN [@[i] EXCEPT !.paymentStatus = paymentStatus]
        ELSE @[i]]]

\* The FAILED branch: stock, wallet points and coupon usage given back.
\* userId is the caller's.
RestoreAndRefill(d, oid, userId) ==
    [d EXCEPT !.carts[userId] = [p \in Products |->
        IF p \in DOMAIN d.orders[oid].orderItems
        THEN @[p] + d.orders[oid].orderItems[p].quantity ELSE @[p]]]
TxRestore(d, oid, userId) ==
    LET o == d.orders[oid]
        d1 == [d EXCEPT !.products = [p \in Products |->
                  IF p \in DOMAIN o.orderItems
                  THEN [@[p] EXCEPT !.stock = @ + o.orderItems[p].quantity]
                  ELSE @[p]]]
        d2 == IF o.walletPointsUsed > 0
              THEN [d1 EXCEPT !.wallet[userId] = @ + o.walletPointsUsed]
              ELSE d1
        d3 == IF o.couponId # NoCode
              THEN [d2 EXCEPT !.couponUsage[o.couponId] = @ - 1,
                              !.userCoupons[userId][o.couponId] =
                                  IF @.exists THEN [@ EXCEPT !.usageCount = @ - 1]
                                  ELSE @]
              ELSE d2
    IN d3

RestoreAlways(d, oid, userId, paymentStatus) ==
    TxRestore(TxUpdateTransactions(TxUpdateOrder(d, oid, paymentStatus),
                                   oid, paymentStatus), oid, userId)
UpdatePaymentStatements(d, oid, userId, paymentStatus) ==
    LET d1 == TxUpdateOrder(d, oid, paymentStatus)
        d2 == TxUpdateTransactions(d1, oid, paymentStatus)
    IN IF paymentStatus = "FAILED" THEN TxRestore(d2, oid, userId) ELSE d2

----------------------------------------------------------------------------
(* Requests *)

IdleReq == [pc |-> "idle"]
\* out: the response sent by the step just taken (NoResp: none was sent).
NoResp == [op |-> "none", kind |-> "none"]
NoRT == [orderId |-> 0]

InFlight(r) == reqs[r].pc # "idle"

\* A new request takes the first idle slot (the slots are interchangeable).
FirstIdle(r) == ~InFlight(r) /\ \A x \in Reqs : x < r => InFlight(x)

\* The counters a round trip is about.
Counters(d) == [stock |-> [p \in Products |-> d.products[p].stock],
                wallet |-> d.wallet,
                couponUsage |-> d.couponUsage,
                usageCount |-> [u \in Users |-> [c \in Coupons |->
                                   d.userCoupons[u][c].usageCount]]]

Install(d) ==
    /\ products' = d.products
    /\ wallet' = d.wallet
    /\ couponUsage' = d.couponUsage
    /\ userCoupons' = d.userCoupons
    /\ carts' = d.carts
    /\ orders' = d.orders
    /\ transactions' = d.transactions

\* The handler of slot r returns: response is what it sends.
Finish(r, response) ==
    /\ reqs' = [reqs EXCEPT ![r] = IdleReq]
    /\ out' = response

Init ==
    /\ products = [p \in Products |->
                     [price |-> InitPrice[p], stock |-> InitStock[p], isActive |-> TRUE]]
    /\ wallet = InitWallet
    /\ couponUsage = [c \in Coupons |-> 0]
    /\ userCoupons = [u \in Users |-> [c \in Coupons |->
                        IF c = "WELCOME10" THEN [exists |-> TRUE, usageCount |-> 0]
                        ELSE NoUserCoupon]]
    /\ carts = [u \in Users |-> EmptyCart]
    /\ orders = << >>
    /\ transactions = << >>
    /\ reqs = [r \in Reqs |-> IdleReq]
    /\ out = NoResp
    /\ nCalls = 0
    /\ compensated = << >>
    /\ rt = NoRT

\* addToCart: the product must be active and in stock for the quantity
\* asked and for the quantity the line would then hold.
AddToCart(u, p, quantity) ==
    /\ products[p].isActive
    /\ products[p].stock >= quantity
    /\ carts[u][p] + quantity <= products[p].stock
    /\ nCalls < MaxCalls
    /\ nCalls' = nCalls + 1
    /\ carts' = [carts EXCEPT ![u][p] = @ + quantity]
    /\ rt' = NoRT
    /\ UNCHANGED <<products, wallet, couponUsage, userCoupons, orders,
                   transactions, reqs, compensated>>
    /\ out' = NoResp

\* The breakdown calculateOrder returns: each amount through toFixed(2).
Breakdown(subtotal, couponDiscount, walletPointsUsed) ==
    [subtotal |-> ToDecimal2(subtotal),
     couponDiscount |-> ToDecimal2(couponDiscount),
     walletPointsUsed |-> ToDecimal2(walletPointsUsed),
     finalAmount |-> ToDecimal2(FinalAmount(subtotal - couponDiscount,
                                            walletPointsUsed))]

\* The responses calculateOrder can send in the current state (more than
\* one only when several cart lines fail the validation loop).
CalcResponses(u, couponCode, useWalletPoints, walletPointsToUse) ==
    LET items == CartItems(u)
        subtotal == Subtotal(items)
        ce == IF couponCode = NoCode THEN "none"
              ELSE CalcCouponError(couponCode, subtotal,
                       IF couponCode \in Coupons THEN couponUsage[couponCode] ELSE 0)
        ue == IF couponCode = NoCode \/ ce # "none" THEN "none"
              ELSE UserCouponError(couponCode, userCoupons[u][couponCode])
        couponDiscount == IF couponCode = NoCode \/ ce # "none" \/ ue # "none" THEN 0
                          ELSE CouponDiscount(CouponRow(couponCode), subtotal)
        w == CalcWallet(useWalletPoints, walletPointsToUse,
                        ParseFloat(wallet[u]), subtotal - couponDiscount)
    IN IF CartErrors(items) # {}
       THEN {[op |-> "calc", kind |-> e] : e \in CartErrors(items)}
       ELSE IF ce # "none" THEN {[op |-> "calc", kind |-> ce]}
       ELSE IF ue # "none" THEN {[op |-> "calc", kind |-> ue]}
       ELSE IF w.err # "none" THEN {[op |-> "calc", kind |-> w.err]}
       ELSE {[op |-> "calc", kind |-> "ok",
              breakdown |-> Breakdown(subtotal, couponDiscount, w.used)]}

\* calculateOrder: four reads and a response; it writes nothing, and the
\* model takes its reads in one step.  (CalculateAndClear: a preview that
\* would empty the cart it priced.)
CalculateAndClear(u, couponCode, useWalletPoints, walletPointsToUse) ==
    /\ out' \in CalcResponses(u, couponCode, useWalletPoints, walletPointsToUse)
    /\ carts' = [carts EXCEPT ![u] = EmptyCart]
    /\ UNCHANGED <<products, wallet, couponUsage, userCoupons, orders,
                   transactions, reqs, nCalls, compensated, rt>>
CalculateOrder(u, couponCode, useWalletPoints, walletPointsToUse) ==
    /\ out' \in CalcResponses(u, couponCode, useWalletPoints, walletPointsToUse)
    /\ UNCHANGED <<dbvars, reqs, nCalls, compensated, rt>>

\* placeOrder, first await: the cart is read and checked.
ReadCart(r, u, couponCode) ==
    /\ FirstIdle(r)
    /\ nCalls < MaxCalls
    /\ LET items == CartItems(u) IN
       IF CartErrors(items) # {}
       THEN /\ \E e \in CartErrors(items) : Finish(r, [op |-> "place", kind |-> e])
            /\ UNCHANGED nCalls
       ELSE /\ nCalls' = nCalls + 1
            /\ reqs' = [reqs EXCEPT ![r] =
                 [pc |-> IF couponCode # NoCode THEN "coupon" ELSE "wallet",
                  op |-> "place", user |-> u, couponCode |-> couponCode,
                  cartItems |-> [p \in DOMAIN items |->
                                   [quantity |-> items[p].quantity,
                                    price |-> items[p].price]],
                  subtotal |-> Subtotal(items),
                  couponDiscount |-> 0, walletPointsUsed |-> 0,
                  finalAmount |-> 0]]
            /\ out' = NoResp
    /\ UNCHANGED <<dbvars, compensated, rt>>

\* Second await: prisma.coupon.findUnique and the checks on the coupon row.
ReadCoupon(r) ==
    /\ reqs[r].pc = "coupon"
    /\ LET l == reqs[r]
           usage == IF l.couponCode \in Coupons THEN couponUsage[l.couponCode] ELSE 0
           e == PlaceCouponError(l.couponCode, l.subtotal, usage)
       IN IF e # "none"
          THEN Finish(r, [op |-> "place", kind |-> e])
          ELSE /\ reqs' = [reqs EXCEPT ![r].pc = "usercoupon"]
               /\ out' = NoResp
    /\ UNCHANGED <<dbvars, nCalls, compensated, rt>>

\* Third await: prisma.userCoupon.findUnique, the per-user limit and the
\* discount.
ReadUserCoupon(r) ==
    /\ reqs[r].pc = "usercoupon"
    /\ LET l == reqs[r]
           e == UserCouponError(l.couponCode, userCoupons[l.user][l.couponCode])
       IN IF e # "none"
          THEN Finish(r, [op |-> "place", kind |-> e])
          ELSE /\ reqs' = [reqs EXCEPT ![r].pc = "wallet",
                                       ![r].couponDiscount =
                                           CouponDiscount(CouponRow(l.couponCode), l.subtotal)]
               /\ out' = NoResp
    /\ UNCHANGED <<dbvars, nCalls, compensated, rt>>

\* Fourth await: prisma.user.findUnique and the wallet points.
\* useWalletPoints and walletPointsToUse are fields of the request body
\* that the handler reads here for the first time: the model draws them
\* here.
ReadWallet(r, useWalletPoints, walletPointsToUse) ==
    /\ reqs[r].pc = "wallet"
    /\ LET l == reqs[r]
           available == ParseFloat(wallet[l.user])
           amountAfterCoupon == l.subtotal - l.couponDiscount
           w == PlaceWallet(useWalletPoints, walletPointsToUse,
                            available, amountAfterCoupon)
       IN IF w.err # "none"
          THEN Finish(r, [op |-> "place", kind |-> w.err])
          ELSE /\ reqs' = [reqs EXCEPT ![r].pc = "tx",
                                       ![r].walletPointsUsed = w.used,
                                       ![r].finalAmount =
                                           FinalAmount(amountAfterCoupon, w.used)]
               /\ out' = NoResp
    /\ UNCHANGED <<dbvars, nCalls, compensated, rt>>

\* placeOrder's transaction commits: all its statements take effect.
PlaceOrderCommit(r) ==
    /\ reqs[r].pc = "tx"
    /\ LET l == reqs[r]
           d == PlaceOrderStatements(DB, l, PlaceOrderLen)
       IN /\ Install(d)
          /\ reqs' = [reqs EXCEPT ![r] = IdleReq]
          /\ out' = [op |-> "place", kind |-> "ok", orderId |-> Len(d.orders)]
          /\ compensated' = Append(compensated, 0)
          /\ rt' = [orderId |-> Len(d.orders), pre |-> Counters(DB)]
    /\ UNCHANGED nCalls

\* placeOrder's transaction fails after k statements (a deadlock victim,
\* the transaction timeout, a lost connection): prisma rolls it back and
\* the handler passes the error on.
PlaceOrderAbort(r) ==
    /\ reqs[r].pc = "tx"
    /\ \E k \in 0..(PlaceOrderLen - 1) :
         LET d == Rollback(DB, PlaceOrderStatements(DB, reqs[r], k))
         IN /\ Install(d)
            /\ compensated' = [i \in 1..Len(d.orders) |->
                                  IF i <= Len(compensated) THEN compensated[i] ELSE 0]
    /\ Finish(r, [op |-> "place", kind |-> "TransactionError"])
    /\ UNCHANGED <<nCalls, rt>>

\* The guard of updatePaymentStatus on the order it has read.
NeverCompleted(order) == FALSE
AlreadyCompleted(order) == order.paymentStatus = "SUCCESS"

\* prisma.order.findFirst({where: {id: orderId, userId}}) finds a row.
FindById(u, orderId) == orderId \in DOMAIN orders
FindFirst(u, orderId) == orderId \in DOMAIN orders /\ orders[orderId].userId = u

\* updatePaymentStatus, first await: prisma.order.findFirst by id and
\* owner, and the check that the payment is not completed already.
FindOrder(r, u, orderId, paymentStatus) ==
    /\ FirstIdle(r)
    /\ nCalls < MaxCalls
    /\ IF ~FindFirst(u, orderId)
       THEN /\ Finish(r, [op |-> "pay", kind |-> "OrderNotFound"])
            /\ UNCHANGED nCalls
       ELSE IF AlreadyCompleted(orders[orderId])
       THEN /\ Finish(r, [op |-> "pay", kind |-> "AlreadySettled"])
            /\ UNCHANGED nCalls
       ELSE /\ reqs' = [reqs EXCEPT ![r] =
                 [pc |-> "paytx", op |-> "pay", user |-> u, orderId |-> orderId,
                  paymentStatus |-> paymentStatus,
                  seen |-> orders[orderId].paymentStatus]]
            /\ out' = NoResp
            /\ nCalls' = nCalls + 1
    /\ UNCHANGED <<dbvars, compensated, rt>>

\* updatePaymentStatus's transaction commits.
UpdatePaymentCommit(r) ==
    /\ reqs[r].pc = "paytx"
    /\ LET l == reqs[r]
           d == UpdatePaymentStatements(DB, l.orderId, l.user, l.paymentStatus)
       IN /\ Install(d)
          /\ reqs' = [reqs EXCEPT ![r] = IdleReq]
          /\ out' = [op |-> "pay", kind |-> "ok", orderId |-> l.orderId,
                     paymentStatus |-> d.orders[l.orderId].paymentStatus,
                     orderStatus |-> d.orders[l.orderId].orderStatus]
          /\ compensated' = IF l.paymentStatus = "FAILED"
                            THEN [compensated EXCEPT ![l.orderId] = @ + 1]
                            ELSE compensated
    /\ rt' = NoRT
    /\ UNCHANGED nCalls

\* updatePaymentStatus's transaction fails and is rolled back.
UpdatePaymentAbort(r) ==
    /\ reqs[r].pc = "paytx"
    /\ Finish(r, [op |-> "pay", kind |-> "TransactionError"])
    /\ UNCHANGED <<dbvars, nCalls, compensated, rt>>

Next ==
    \/ \E u \in Users, p \in Products, q \in 1..MaxQty : AddToCart(u, p, q)
    \/ \E r \in Reqs, u \in Users, c \in CouponCodes : ReadCart(r, u, c)
    \/ \E r \in Reqs : ReadCoupon(r)
    \/ \E r \in Reqs : ReadUserCoupon(r)
    \/ \E r \in Reqs, w \in WalletChoices : ReadWallet(r, w[1], w[2])
    \/ \E r \in Reqs : PlaceOrderCommit(r)
    \/ \E r \in Reqs : PlaceOrderAbort(r)
    \/ \E r \in Reqs, u \in Users, o \in 1..(Len(orders) + 1),
          ps \in {"SUCCESS", "FAILED"} : FindOrder(r, u, o, ps)
    \/ \E r \in Reqs : UpdatePaymentCommit(r)
    \/ \E r \in Reqs : UpdatePaymentAbort(r)

Spec == Init /\ [][Next]_vars

\* The calls one after the other: a call starts only when no handler is in
\* flight, and then runs to its end.
Quiet == \A r \in Reqs : ~InFlight(r)

NextSeq ==
    \/ \E u \in Users, p \in Products, q \in 1..MaxQty : Quiet /\ AddToCart(u, p, q)
    \/ \E r \in Reqs, u \in Users, c \in CouponCodes : Quiet /\ ReadCart(r, u, c)
    \/ \E r \in Reqs : ReadCoupon(r)
    \/ \E r \in Reqs : ReadUserCoupon(r)
    \/ \E r \in Reqs, w \in WalletChoices : ReadWallet(r, w[1], w[2])
    \/ \E r \in Reqs : PlaceOrderCommit(r)
    \/ \E r \in Reqs : PlaceOrderAbort(r)
    \/ \E r \in Reqs, u \in Users, o \in 1..(Len(orders) + 1),
          ps \in {"SUCCESS", "FAILED"} : Quiet /\ FindOrder(r, u, o, ps)
    \/ \E r \in Reqs : UpdatePaymentCommit(r)
    \/ \E r \in Reqs : UpdatePaymentAbort(r)

SpecSeq == Init /\ [][NextSeq]_vars

\* The preview (calculateOrder) called at any moment of such a run, also
\* between the steps of the call in flight.
NextPreview ==
    \/ NextSeq
    \/ \E u \in Users, c \in CouponCodes, w \in WalletChoices :
          CalculateOrder(u, c, w[1], w[2])

SpecPreview == Init /\ [][NextPreview]_vars

----------------------------------------------------------------------------
(* The seller's side: product updates while orders are priced and placed *)

\* The prices a seller sets (cents) and the stock levels a seller sets.
NewPrices == {250}
NewStocks == {0}

\* updateProduct with a price: prisma.product.update({data: {price}}).
UpdateProduct(p, price) ==
    /\ nCalls < MaxCalls
    /\ nCalls' = nCalls + 1
    /\ products[p].price # price
    /\ products' = [products EXCEPT ![p].price = price]
    /\ out' = NoResp
    /\ rt' = NoRT
    /\ UNCHANGED <<wallet, couponUsage, userCoupons, carts, orders,
                   transactions, reqs, compensated>>

\* updateStock: prisma.product.update({data: {stock}}).
UpdateStock(p, stock) ==
    /\ nCalls < MaxCalls
    /\ nCalls' = nCalls + 1
    /\ products[p].stock # stock
    /\ products' = [products EXCEPT ![p].stock = stock]
    /\ out' = NoResp
    /\ rt' = NoRT
    /\ UNCHANGED <<wallet, couponUsage, userCoupons, carts, orders,
                   transactions, reqs, compensated>>

\* deleteProduct: a soft delete, isActive set to false.
DeleteProduct(p) ==
    /\ nCalls < MaxCalls
    /\ nCalls' = nCalls + 1
    /\ products[p].isActive
    /\ products' = [products EXCEPT ![p].isActive = FALSE]
    /\ out' = NoResp
    /\ rt' = NoRT
    /\ UNCHANGED <<wallet, couponUsage, userCoupons, carts, orders,
                   transactions, reqs, compensated>>

NextSeller ==
    \/ Next
    \/ \E p \in Products, price \in NewPrices : UpdateProduct(p, price)
    \/ \E p \in Products, stock \in NewStocks : UpdateStock(p, stock)
    \/ \E p \in Products : DeleteProduct(p)

SpecSeller == Init /\ [][NextSeller]_vars

----------------------------------------------------------------------------
(* The transactions statement by statement.  Each UPDATE takes the lock   *)
(* of the row it writes and holds it until the transaction ends; a        *)
(* statement whose row is locked by another transaction waits.  A         *)
(* transaction that waits is ended by the database when it is the victim  *)
(* of a deadlock, and by prisma.$transaction when its timeout expires     *)
(* (the handlers pass no options, so the default applies); the handler    *)
(* then passes the error on.  The reads before the transaction are taken  *)
(* in one step here.                                                      *)

\* The orders in which a query without orderBy can return the rows S.
Perms(S) == {s \in [1..Cardinality(S) -> S] :
                \A i, j \in 1..Cardinality(S) : i # j => s[i] # s[j]}

\* The rows placeOrder's transaction updates, in the order of its
\* statements: the product of each cart line (in the order the lines were
\* returned), the user, the coupon, the UserCoupon row, the cart.
PlaceOrderRows(l, lines) ==
    [i \in 1..Len(lines) |-> <<"product", lines[i], "">>]
    \o (IF l.walletPointsUsed > 0 THEN << <<"user", l.user, "">> >> ELSE << >>)
    \o (IF l.couponCode \in Coupons
        THEN << <<"coupon", l.couponCode, "">>,
                <<"usercoupon", l.user, l.couponCode>> >>
        ELSE << >>)
    \o << <<"cart", l.user, "">> >>

\* The rows updatePaymentStatus's transaction updates: the order, its
\* transaction, and for FAILED the product of each order item, the user,
\* the coupon and the UserCoupon row.
UpdatePaymentRows(o, userId, paymentStatus, lines) ==
    << <<"order", o.id, "">>, <<"transaction", o.id, "">> >>
    \o (IF paymentStatus = "FAILED"
        THEN [i \in 1..Len(lines) |-> <<"product", lines[i], "">>]
             \o (IF o.walletPointsUsed > 0 THEN << <<"user", userId, "">> >> ELSE << >>)
             \o (IF o.couponId # NoCode
                 THEN << <<"coupon", o.couponId, "">>,
                         <<"usercoupon", userId, o.couponId>> >>
                 ELSE << >>)
        ELSE << >>)

\* The rows the transaction of slot r holds the lock of.
Held(r) == IF reqs[r].pc = "locks"
           THEN {reqs[r].rows[i] : i \in 1..reqs[r].k}
           ELSE {}

\* The transaction of slot r waits: the row of its next statement is
\* locked by another transaction.
Waiting(r) ==
    /\ reqs[r].pc = "locks"
    /\ reqs[r].k < Len(reqs[r].rows)
    /\ \E x \in Reqs \ {r} : reqs[r].rows[reqs[r].k + 1] \in Held(x)

\* The number of calls of a run of the lock-level specification.
LockCalls == 3

\* The carts a run starts from (one unit per line, every cart with p1):
\* carts addToCart builds.
LockCarts == {c \in [Users -> [Products -> {0, 1}]] : \A u \in Users : c[u]["p1"] = 1}

InitLocks ==
    /\ products = [p \in Products |->
                     [price |-> InitPrice[p], stock |-> InitStock[p], isActive |-> TRUE]]
    /\ wallet = InitWallet
    /\ couponUsage = [c \in Coupons |-> 0]
    /\ userCoupons = [u \in Users |-> [c \in Coupons |->
                        IF c = "WELCOME10" THEN [exists |-> TRUE, usageCount |-> 0]
                        ELSE NoUserCoupon]]
    /\ carts \in LockCarts
    /\ orders = << >>
    /\ transactions = << >>
    /\ reqs = [r \in Reqs |-> IdleReq]
    /\ out = NoResp
    /\ nCalls = 0
    /\ compensated = << >>
    /\ rt = NoRT

\* placeOrder up to its transaction: the reads and checks of ReadCart,
\* ReadCoupon, ReadUserCoupon and ReadWallet in one step, for a call that
\* passes them; lines is the order in which findMany returned the cart.
BeginPlace(r, u, couponCode, useWalletPoints, walletPointsToUse, lines) ==
    /\ FirstIdle(r)
    /\ nCalls < LockCalls
    /\ LET items == CartItems(u)
           subtotal == Subtotal(items)
           coupon == couponCode # NoCode
           usage == IF couponCode \in Coupons THEN couponUsage[couponCode] ELSE 0
           couponDiscount == IF coupon
                             THEN CouponDiscount(CouponRow(couponCode), subtotal)
                             ELSE 0
           w == PlaceWallet(useWalletPoints, walletPointsToUse,
                            ParseFloat(wallet[u]), subtotal - couponDiscount)
           l == [pc |-> "locks", op |-> "place", user |-> u,
                 couponCode |-> couponCode,
                 cartItems |-> [p \in DOMAIN items |->
                                  [quantity |-> items[p].quantity,
                                   price |-> items[p].price]],
                 subtotal |-> subtotal, couponDiscount |-> couponDiscount,
                 walletPointsUsed |-> w.used,
                 finalAmount |-> FinalAmount(subtotal - couponDiscount, w.used)]
       IN /\ CartErrors(items) = {}
          /\ lines \in Perms(DOMAIN items)
          /\ coupon => /\ PlaceCouponError(couponCode, subtotal, usage) = "none"
                       /\ UserCouponError(couponCode, userCoupons[u][couponCode]) = "none"
          /\ w.err = "none"
          /\ reqs' = [reqs EXCEPT ![r] =
                       [x \in DOMAIN l \cup {"rows", "k"} |->
                           IF x = "rows" THEN PlaceOrderRows(l, lines)
                           ELSE IF x = "k" THEN 0 ELSE l[x]]]
    /\ nCalls' = nCalls + 1
    /\ out' = NoResp
    /\ UNCHANGED <<dbvars, compensated, rt>>

\* updatePaymentStatus up to its transaction (FindOrder, for a call that
\* passes its checks); lines is the order in which the order items were
\* returned.
BeginPay(r, u, orderId, paymentStatus, lines) ==
    /\ FirstIdle(r)
    /\ nCalls < LockCalls
    /\ FindFirst(u, orderId)
    /\ ~AlreadyCompleted(orders[orderId])
    /\ lines \in Perms(DOMAIN orders[orderId].orderItems)
    /\ reqs' = [reqs EXCEPT ![r] =
                 [pc |-> "locks", op |-> "pay", user |-> u, orderId |-> orderId,
                  paymentStatus |-> paymentStatus,
                  seen |-> orders[orderId].paymentStatus,
                  rows |-> UpdatePaymentRows(orders[orderId], u, paymentStatus, lines),
                  k |-> 0]]
    /\ nCalls' = nCalls + 1
    /\ out' = NoResp
    /\ UNCHANGED <<dbvars, compensated, rt>>

\* The next statement of the transaction of slot r runs: the row it
\* updates is not locked by another transaction, and is locked by this
\* one from now on.
TxLock(r) ==
    /\ reqs[r].pc = "locks"
    /\ reqs[r].k < Len(reqs[r].rows)
    /\ ~Waiting(r)
    /\ reqs' = [reqs EXCEPT ![r].k = @ + 1]
    /\ out' = NoResp
    /\ UNCHANGED <<dbvars, nCalls, compensated, rt>>

\* The transaction of slot r has run all its statements and commits: its
\* updates take effect and its locks are released.
TxCommit(r) ==
    /\ reqs[r].pc = "locks"
    /\ reqs[r].k = Len(reqs[r].rows)
    /\ LET l == reqs[r]
           d == IF l.op = "place"
                THEN PlaceOrderStatements(DB, l, PlaceOrderLen)
                ELSE UpdatePaymentStatements(DB, l.orderId, l.user, l.paymentStatus)
       IN /\ Install(d)
          /\ out' = [op |-> l.op, kind |-> "ok",
                     orderId |-> IF l.op = "place" THEN Len(d.orders) ELSE l.orderId]
          /\ compensated' =
                IF l.op = "place" THEN Append(compensated, 0)
                ELSE IF l.paymentStatus = "FAILED"
                THEN [compensated EXCEPT ![l.orderId] = @ + 1]
                ELSE compensated
    /\ reqs' = [reqs EXCEPT ![r] = IdleReq]
    /\ UNCHANGED <<nCalls, rt>>

\* A database that never ends a waiting transaction.
NoTimeout(r) ==
    /\ Waiting(r)
    /\ FALSE
    /\ UNCHANGED vars

\* The transaction of slot r, waiting for a row, is ended (deadlock
\* victim, or the transaction timeout): it is rolled back, its locks are
\* released, and the handler passes the error on.
TxTimeout(r) ==
    /\ Waiting(r)
    /\ Finish(r, [op |-> reqs[r].op, kind |-> "TransactionError"])
    /\ UNCHANGED <<dbvars, nCalls, compensated, rt>>

LockCoupons == {NoCode} \cup Coupons
LockWallet == {<<FALSE, NULL>>, <<TRUE, NULL>>}

NextLocks ==
    \/ \E r \in Reqs, u \in Users, c \in LockCoupons, w \in LockWallet,
          lines \in UNION {Perms(S) : S \in SUBSET Products} :
          BeginPlace(r, u, c, w[1], w[2], lines)
    \/ \E r \in Reqs, u \in Users, o \in DOMAIN orders,
          ps \in {"SUCCESS", "FAILED"},
          lines \in UNION {Perms(S) : S \in SUBSET Products} :
          BeginPay(r, u, o, ps, lines)
    \/ \E r \in Reqs : TxLock(r)
    \/ \E r \in Reqs : TxCommit(r)
    \/ \E r \in Reqs : TxTimeout(r)

\* Fair scheduling: a statement that can run does run, a transaction that
\* can commit does commit, and a transaction that keeps waiting is ended.
SpecLocks ==
    /\ InitLocks
    /\ [][NextLocks]_vars
    /\ \A r \in Reqs : /\ WF_vars(TxLock(r))
                        /\ WF_vars(TxCommit(r))
                        /\ WF_vars(TxTimeout(r))

----------------------------------------------------------------------------
(* The concurrent handlers started from a cart that is already filled: u1
   has one unit of p2 in the cart (a cart addToCart builds), which leaves
   the calls of a run for the orders. *)

StartCarts == [u \in Users |-> [p \in Products |->
                 IF u = "u1" /\ p = "p2" THEN 1 ELSE 0]]

InitCart ==
    /\ products = [p \in Products |->
                     [price |-> InitPrice[p], stock |-> InitStock[p], isActive |-> TRUE]]
    /\ wallet = InitWallet
    /\ couponUsage = [c \in Coupons |-> 0]
    /\ userCoupons = [u \in Users |-> [c \in Coupons |->
                        IF c = "WELCOME10" THEN [exists |-> TRUE, usageCount |-> 0]
                        ELSE NoUserCoupon]]
    /\ carts = StartCarts
    /\ orders = << >>
    /\ transactions = << >>
    /\ reqs = [r \in Reqs |-> IdleReq]
    /\ out = NoResp
    /\ nCalls = 0
    /\ compensated = << >>
    /\ rt = NoRT

SpecCart == InitCart /\ [][Next]_vars

----------------------------------------------------------------------------
(* The pricing functions on their own: the coupon stage and the wallet   *)
(* stage of calculateOrder and placeOrder applied to one input each.     *)

\* Coupon rows as the seed and the registration create them, and as they
\* come to be inactive or out of their validity dates; NoCoupon for a code
\* no row has.  Amounts in cents.
DiscountInputs == {<<"PERCENTAGE", 10>>, <<"PERCENTAGE", 20>>,
                   <<"FIXED", 5000>>, <<"FIXED", 200000>>}
ValidityInputs == {<<0, Now>>, <<0, Now - 1>>, <<Now + 1, Now + 2>>}
CouponInputs ==
    {NoCoupon} \cup
    {[id |-> "C", discountType |-> dv[1], discountValue |-> dv[2],
      minPurchase |-> mp, maxDiscount |-> md,
      usageLimitPerUser |-> pu, totalUsageLimit |-> tu,
      validFrom |-> vv[1], validTo |-> vv[2], isActive |-> a] :
        dv \in DiscountInputs, mp \in {NULL, 0, 50000}, md \in {NULL, 20000},
        pu \in {NULL, 1}, tu \in {NULL, 1}, vv \in ValidityInputs,
        a \in BOOLEAN}
UserCouponInputs == {NoUserCoupon} \cup
                    {[exists |-> TRUE, usageCount |-> n] : n \in {0, 1}}

PricingInputs ==
    {[fn |-> "coupon", coupon |-> c, subtotal |-> s, usage |-> n, userCoupon |-> uc] :
        c \in CouponInputs, s \in {125, 100000}, n \in {0, 1},
        uc \in UserCouponInputs}
    \cup
    {[fn |-> "wallet", useWalletPoints |-> w[1], walletPointsToUse |-> w[2],
      balance |-> b, amountAfterCoupon |-> a] :
        w \in {<<FALSE, NULL>>} \cup
               {<<TRUE, x>> : x \in {NULL, 0, 100, 5000, 90000}},
        b \in {0, 300, 5000}, a \in {0, 125, 80000}}

InitPricing ==
    /\ products = [p \in Products |->
                     [price |-> InitPrice[p], stock |-> InitStock[p], isActive |-> TRUE]]
    /\ wallet = InitWallet
    /\ couponUsage = [c \in Coupons |-> 0]
    /\ userCoupons = [u \in Users |-> [c \in Coupons |-> NoUserCoupon]]
    /\ carts = [u \in Users |-> EmptyCart]
    /\ orders = << >>
    /\ transactions = << >>
    /\ reqs = [r \in Reqs |-> IdleReq]
    /\ out = NoResp
    /\ nCalls = 0
    /\ compensated = << >>
    /\ rt \in PricingInputs

\* The coupon stage of both handlers on the input.
PriceCoupon ==
    /\ rt.fn = "coupon"
    /\ out = NoResp
    /\ out' = [op |-> "coupon",
               calc |-> CalcCoupon(rt.coupon, ParseFloat(rt.subtotal),
                                   rt.usage, rt.userCoupon),
               place |-> PlaceCoupon(rt.coupon, ParseFloat(rt.subtotal),
                                     rt.usage, rt.userCoupon)]
    /\ UNCHANGED <<dbvars, reqs, nCalls, compensated, rt>>

\* The wallet stage of both handlers on the input, and the final amount.
PriceWallet ==
    /\ rt.fn = "wallet"
    /\ out = NoResp
    /\ LET c == CalcWallet(rt.useWalletPoints, rt.walletPointsToUse,
                           ParseFloat(rt.balance), ParseFloat(rt.amountAfterCoupon))
           p == PlaceWallet(rt.useWalletPoints, rt.walletPointsToUse,
                            ParseFloat(rt.balance), ParseFloat(rt.amountAfterCoupon))
       IN out' = [op |-> "wallet", calc |-> c, place |-> p,
                  calcFinal |-> FinalAmount(ParseFloat(rt.amountAfterCoupon), c.used),
                  placeFinal |-> FinalAmount(ParseFloat(rt.amountAfterCoupon), p.used)]
    /\ UNCHANGED <<dbvars, reqs, nCalls, compensated, rt>>

NextPricing == PriceCoupon \/ PriceWallet

SpecPricing == InitPricing /\ [][NextPricing]_vars

----------------------------------------------------------------------------
(* Properties *)

CountersNow == Counters(DB)

\* The step is one of the placeOrder handler in slot r.
PlaceStepOf(r) ==
    /\ reqs'[r] # reqs[r]
    /\ \/ InFlight(r) /\ reqs[r].op = "place"
       \/ ~InFlight(r) /\ reqs'[r].pc # "idle" /\ reqs'[r].op = "place"

\* The step commits an updatePaymentStatus(FAILED) of slot r.
FailedCommitOf(r) ==
    /\ reqs[r].pc = "paytx"
    /\ reqs'[r].pc = "idle"
    /\ reqs[r].paymentStatus = "FAILED"
    /\ out'.op = "pay"
    /\ out'.kind = "ok"

\* C1: No oversell.  When the orders were placed by different users, no
\* product's stock is below 0, whatever the interleaving of their
\* placeOrder calls.
C1_NoOversell ==
    (\A i, j \in DOMAIN orders : i # j => orders[i].userId # orders[j].userId)
        => \A p \in Products : products[p].stock >= 0

\* C2: No overdraw.  No user's walletPoints balance is negative in any
\* reachable state.
C2_NoOverdraw == \A u \in Users : wallet[u] >= 0

\* C3: placeOrder is all-or-nothing.  Every step of a placeOrder call but
\* its successful commit (each read, each validation failure, the failure
\* of its transaction) leaves orders, order items, transactions, stock,
\* wallet, coupon counters, UserCoupon rows and carts as they are.
C3_AllOrNothing ==
    [][(/\ (\E r \in Reqs : PlaceStepOf(r)) \/ out'.op = "place"
        /\ ~(out'.op = "place" /\ out'.kind = "ok"))
       => UNCHANGED dbvars]_vars

\* C3 witness: a placeOrder transaction failed after the handler had
\* priced an order with a coupon and wallet points.
C3_Witness == out.op = "place" /\ out.kind = "TransactionError"

\* C4: Round trip.  placeOrder followed by updatePaymentStatus(FAILED) on
\* the order it created, nothing else in between, leaves stock, wallet
\* points, currentUsageCount and usageCount as they were before placeOrder.
C4_RoundTrip ==
    [][\A r \in Reqs :
          (FailedCommitOf(r) /\ rt.orderId = reqs[r].orderId)
              => CountersNow' = rt.pre]_vars

\* C5: Reconciliation is exclusive per order.  The compensation of an
\* order is applied at most once, however many callbacks arrive.
C5_CompensateOnce == \A i \in DOMAIN compensated : compensated[i] <= 1

StatusPair(o) == <<o.paymentStatus, o.orderStatus>>

\* C6: An order is created (PENDING, PENDING), its status pair is always
\* one of (PENDING, PENDING), (SUCCESS, CONFIRMED), (FAILED, CANCELLED), and
\* once it has left (PENDING, PENDING) no step changes it.
C6_TransitionOnce ==
    [][\A i \in DOMAIN orders' :
          /\ StatusPair(orders'[i]) \in {<<"PENDING", "PENDING">>,
                                         <<"SUCCESS", "CONFIRMED">>,
                                         <<"FAILED", "CANCELLED">>}
          /\ IF i \in DOMAIN orders
             THEN orders[i].paymentStatus # "PENDING"
                     => StatusPair(orders'[i]) = StatusPair(orders[i])
             ELSE StatusPair(orders'[i]) = <<"PENDING", "PENDING">>]_vars

\* C7: A call of updatePaymentStatus (SUCCESS or FAILED) by the owner that
\* finds the order's paymentStatus SUCCESS is answered AlreadySettled and
\* changes nothing: no order, transaction, stock, wallet or coupon counter,
\* and no transaction is started for it.
C7_SettledRejected ==
    [][\A r \in Reqs, u \in Users, o \in DOMAIN orders, ps \in {"SUCCESS", "FAILED"} :
          (/\ orders[o].userId = u
           /\ orders[o].paymentStatus = "SUCCESS"
           /\ FindOrder(r, u, o, ps))
          => /\ out' = [op |-> "pay", kind |-> "AlreadySettled"]
             /\ UNCHANGED <<dbvars, reqs, compensated>>]_vars

\* C7 witness: a callback was answered AlreadySettled for an order that is
\* SUCCESS/CONFIRMED.
C7_Witness ==
    /\ out = [op |-> "pay", kind |-> "AlreadySettled"]
    /\ \E i \in DOMAIN orders : StatusPair(orders[i]) = <<"SUCCESS", "CONFIRMED">>

\* C8: updatePaymentStatus(FAILED) called on an order it finds FAILED
\* already succeeds and changes no stock, wallet balance, currentUsageCount
\* or usageCount.
C8_FailedAgainNoOp ==
    [][\A r \in Reqs :
          (FailedCommitOf(r) /\ reqs[r].seen = "FAILED")
              => CountersNow' = CountersNow]_vars

\* C9: An order whose paymentStatus is SUCCESS holds the resources it
\* consumed: it has never been compensated.
C9_SuccessHoldsResources ==
    \A i \in DOMAIN orders : orders[i].paymentStatus = "SUCCESS" => compensated[i] = 0

\* C10: For every coupon currentUsageCount >= 0, and currentUsageCount <=
\* totalUsageLimit when the limit is set.
C10_CouponUsageBounds ==
    \A c \in Coupons :
        /\ couponUsage[c] >= 0
        /\ CouponRow(c).totalUsageLimit # NULL
              => couponUsage[c] <= CouponRow(c).totalUsageLimit

\* C11: For every user and coupon usageCount >= 0, and usageCount <=
\* usageLimitPerUser when the coupon sets the limit (so a coupon with
\* usageLimitPerUser = 1 is consumed by at most one order of a user at a
\* time, also when the user's orders are placed concurrently).
C11_UserCouponBounds ==
    \A u \in Users, c \in Coupons :
        /\ userCoupons[u][c].usageCount >= 0
        /\ CouponRow(c).usageLimitPerUser # NULL
              => userCoupons[u][c].usageCount <= CouponRow(c).usageLimitPerUser

\* C12: Monetary identity of every stored order (DECIMAL(10,2) columns):
\* finalAmount = max(0, totalAmount - couponDiscount - walletPointsUsed),
\* couponDiscount <= totalAmount, and
\* walletPointsUsed <= totalAmount - couponDiscount.
C12_MonetaryIdentity ==
    \A i \in DOMAIN orders :
        LET o == orders[i] IN
        /\ o.finalAmount = Max(0, o.totalAmount - o.couponDiscount - o.walletPointsUsed)
        /\ o.couponDiscount <= o.totalAmount
        /\ o.walletPointsUsed <= o.totalAmount - o.couponDiscount

\* The error kinds, or "ok", calculateOrder can answer in the current state.
CalcKinds(u, couponCode, useWalletPoints, walletPointsToUse) ==
    {x.kind : x \in CalcResponses(u, couponCode, useWalletPoints, walletPointsToUse)}

\* The amounts placeOrder stores in the order of a priced request l.
StoredAmounts(l) ==
    [subtotal |-> ToDecimal2(l.subtotal),
     couponDiscount |-> ToDecimal2(l.couponDiscount),
     walletPointsUsed |-> ToDecimal2(l.walletPointsUsed),
     finalAmount |-> ToDecimal2(l.finalAmount)]

\* C13: Commit re-runs the preview's pricing.  With the calls one after
\* the other (the state is the same for all the reads of a placeOrder):
\* a placeOrder that is rejected fails with an error kind calculateOrder
\* gives for the same state and input, and a placeOrder that passes its
\* last check is one calculateOrder accepts, with the preview's subtotal,
\* couponDiscount, walletPointsUsed and finalAmount as the amounts stored.
C13_CommitMatchesPreview ==
    [][/\ \A r \in Reqs, u \in Users, c \in CouponCodes :
             (ReadCart(r, u, c) /\ out'.op = "place")
                 => out'.kind \in CalcKinds(u, c, FALSE, NULL)
       /\ \A r \in Reqs :
             ((ReadCoupon(r) \/ ReadUserCoupon(r)) /\ out'.op = "place")
                 => out'.kind \in CalcKinds(reqs[r].user, reqs[r].couponCode, FALSE, NULL)
       /\ \A r \in Reqs, w \in WalletChoices :
             ReadWallet(r, w[1], w[2])
                 => IF out'.op = "place"
                    THEN out'.kind \in CalcKinds(reqs[r].user, reqs[r].couponCode, w[1], w[2])
                    ELSE CalcResponses(reqs[r].user, reqs[r].couponCode, w[1], w[2])
                           = {[op |-> "calc", kind |-> "ok",
                               breakdown |-> StoredAmounts(reqs'[r])]}]_vars

\* The step is the successful commit of the placeOrder of slot r.
PlaceCommitOf(r) ==
    /\ reqs[r].pc = "tx"
    /\ reqs'[r].pc = "idle"
    /\ out'.op = "place"
    /\ out'.kind = "ok"

\* C14: A successful placeOrder produces in one step: one more order, in
\* (PENDING, PENDING), of the caller, with one item per cart line read;
\* each line's product stock decreased by the line quantity and no other
\* stock changed; the caller's wallet decreased by the order's
\* walletPointsUsed and no other wallet changed; currentUsageCount and the
\* caller's usageCount of the applied coupon each increased by 1 and no
\* other counter changed; the caller's cart empty; one more transaction,
\* PENDING, for the order.
C14_CommitEffects ==
    [][\A r \in Reqs : PlaceCommitOf(r) =>
          LET l == reqs[r]
              n == Len(orders) + 1
              o == orders'[n]
          IN /\ Len(orders') = n
             /\ \A i \in DOMAIN orders : orders'[i] = orders[i]
             /\ o.userId = l.user
             /\ StatusPair(o) = <<"PENDING", "PENDING">>
             /\ DOMAIN o.orderItems = DOMAIN l.cartItems
             /\ \A p \in DOMAIN l.cartItems :
                   o.orderItems[p].quantity = l.cartItems[p].quantity
             /\ \A p \in Products :
                   products'[p].stock = products[p].stock -
                       (IF p \in DOMAIN l.cartItems THEN l.cartItems[p].quantity ELSE 0)
             /\ \A u \in Users :
                   wallet'[u] = wallet[u] - (IF u = l.user THEN o.walletPointsUsed ELSE 0)
             /\ \A c \in Coupons :
                   /\ couponUsage'[c] = couponUsage[c] + (IF c = l.couponCode THEN 1 ELSE 0)
                   /\ \A u \in Users :
                         userCoupons'[u][c].usageCount = userCoupons[u][c].usageCount +
                             (IF c = l.couponCode /\ u = l.user THEN 1 ELSE 0)
             /\ carts' = [carts EXCEPT ![l.user] = EmptyCart]
             /\ transactions' = Append(transactions,
                                       [orderId |-> n, paymentStatus |-> "PENDING"])]_vars

\* The step commits the updatePaymentStatus of slot r.
PayCommitOf(r) ==
    /\ reqs[r].pc = "paytx"
    /\ reqs'[r].pc = "idle"
    /\ out'.op = "pay"
    /\ out'.kind = "ok"

\* The transaction rows of order i.
TransactionsOf(i) == {t \in DOMAIN transactions : transactions[t].orderId = i}

\* C15: updatePaymentStatus(SUCCESS) committing on an order that is
\* PENDING sets the order to (SUCCESS, CONFIRMED) and its transaction to
\* SUCCESS, and changes no stock, wallet balance, currentUsageCount or
\* usageCount.
C15_SuccessFrame ==
    [][\A r \in Reqs :
          (/\ PayCommitOf(r)
           /\ reqs[r].paymentStatus = "SUCCESS"
           /\ orders[reqs[r].orderId].paymentStatus = "PENDING")
          => /\ StatusPair(orders'[reqs[r].orderId]) = <<"SUCCESS", "CONFIRMED">>
             /\ \A t \in DOMAIN transactions' :
                   transactions'[t].orderId = reqs[r].orderId
                       => transactions'[t].paymentStatus = "SUCCESS"
             /\ CountersNow' = CountersNow]_vars

\* C15 witness: the one callback of a run, a SUCCESS, has committed on the
\* one order, which was PENDING until then.
C15_Witness ==
    /\ Len(orders) = 1
    /\ nCalls = 3
    /\ out.op = "pay" /\ out.kind = "ok" /\ out.paymentStatus = "SUCCESS"
    /\ StatusPair(orders[1]) = <<"SUCCESS", "CONFIRMED">>

\* C16: Every order has exactly one transaction row, and the row's
\* paymentStatus is the order's.
C16_OneTransaction ==
    \A i \in DOMAIN orders :
        /\ Cardinality(TransactionsOf(i)) = 1
        /\ \A t \in TransactionsOf(i) :
              transactions[t].paymentStatus = orders[i].paymentStatus

\* C16 witness: a callback has committed and the order it settled is no
\* longer PENDING, while another call is in flight.
C16_Witness ==
    /\ out.op = "pay" /\ out.kind = "ok"
    /\ orders[out.orderId].paymentStatus # "PENDING"
    /\ \E r \in Reqs : InFlight(r)

\* C17: updatePaymentStatus for an order id that does not exist or whose
\* order belongs to another user is answered OrderNotFound and changes no
\* order, transaction, stock, wallet or coupon counter, and starts no
\* transaction; and an order is changed only by a call of its owner.
C17_OrderNotFound ==
    [][/\ \A r \in Reqs, u \in Users, o \in 1..(Len(orders) + 1),
             ps \in {"SUCCESS", "FAILED"} :
             (/\ FindOrder(r, u, o, ps)
              /\ (o \notin DOMAIN orders \/ orders[o].userId # u))
             => /\ out' = [op |-> "pay", kind |-> "OrderNotFound"]
                /\ UNCHANGED <<dbvars, reqs, compensated>>
       /\ \A i \in DOMAIN orders :
             orders'[i] # orders[i]
                 => \E r \in Reqs : /\ PayCommitOf(r)
                                    /\ reqs[r].orderId = i
                                    /\ reqs[r].user = orders[i].userId]_vars

\* C17 witness: a callback was answered OrderNotFound in a state that has
\* orders (the id is of no order, or of an order of another user).
C17_Witness ==
    /\ out = [op |-> "pay", kind |-> "OrderNotFound"]
    /\ Len(orders) >= 1

\* The discount the coupon rules give for coupon c on subtotal s.
RuleDiscount(c, s) ==
    LET pct == (s * c.discountValue) \div 100
        d == IF c.discountType = "PERCENTAGE"
             THEN IF c.maxDiscount # NULL THEN Min(pct, ParseFloat(c.maxDiscount))
                  ELSE pct
             ELSE ParseFloat(c.discountValue)
    IN Min(d, s)

C19_WalletAllocation ==
    out.op = "wallet" =>
        LET b == ParseFloat(rt.balance)
            a == ParseFloat(rt.amountAfterCoupon)
            w == rt.walletPointsToUse
            c == out.calc
        IN /\ ~rt.useWalletPoints => c = [err |-> "none", used |-> 0]
           /\ (rt.useWalletPoints /\ w # NULL) =>
                 IF ParseFloat(w) > b
                 THEN c.err = "InsufficientWalletBalance"
                 ELSE IF ParseFloat(w) > a
                 THEN c.err = "WalletExceedsPayable"
                 ELSE c = [err |-> "none", used |-> ParseFloat(w)]
           /\ (rt.useWalletPoints /\ w = NULL) =>
                 c = [err |-> "none", used |-> Min(b, a)]
           /\ c.err = "none" => out.calcFinal = Max(0, a - c.used)
           /\ (/\ rt.useWalletPoints /\ w = NULL
               /\ rt.amountAfterCoupon = 80000 /\ rt.balance = 5000)
                 => /\ c.used = ParseFloat(5000)
                    /\ out.calcFinal = ParseFloat(75000)

\* C19 witness: the automatic amount was limited by the balance (800.00
\* to pay, 50.00 in the wallet).
C19_Witness ==
    /\ out.op = "wallet"
    /\ rt.useWalletPoints /\ rt.walletPointsToUse = NULL
    /\ rt.amountAfterCoupon = 80000 /\ rt.balance = 5000
    /\ out.calc.used = ParseFloat(5000)

\* The conditions of the coupon rules that fail for an input of the coupon
\* stage, each under its own error kind.
FailingRules(c, s, usage, uc) ==
    IF c = NoCoupon THEN {"CouponNotFound"}
    ELSE {k \in {"CouponInactive", "CouponExpired", "MinPurchaseNotMet",
                 "CouponUsageLimitReached", "UserCouponLimitReached"} :
            \/ k = "CouponInactive" /\ ~c.isActive
            \/ k = "CouponExpired" /\ (Now < c.validFrom \/ Now > c.validTo)
            \/ k = "MinPurchaseNotMet"
                  /\ c.minPurchase # NULL /\ s < ParseFloat(c.minPurchase)
            \/ k = "CouponUsageLimitReached"
                  /\ c.totalUsageLimit # NULL /\ usage >= c.totalUsageLimit
            \/ k = "UserCouponLimitReached"
                  /\ c.usageLimitPerUser # NULL
                  /\ uc.usageCount >= c.usageLimitPerUser}

\* C20: Coupon eligibility, in calculateOrder and in placeOrder.  When a
\* condition fails (code not found, coupon inactive, now outside
\* [validFrom, validTo], subtotal below minPurchase, currentUsageCount at
\* or above totalUsageLimit, usageCount at or above usageLimitPerUser) the
\* call fails with the kind of a failing condition, one kind per
\* condition, and gives no discount; when none fails the coupon is
\* accepted.
C20_CouponEligibility ==
    out.op = "coupon" =>
        LET f == FailingRules(rt.coupon, ParseFloat(rt.subtotal), rt.usage,
                              rt.userCoupon)
        IN \A x \in {out.calc, out.place} :
              IF f = {} THEN x.kind = "ok"
              ELSE x.kind \in f /\ x.couponDiscount = 0

\* The cart checks that fail for the cart of user u in the current state,
\* each under its error kind.
FailingCartRules(u) ==
    IF \A p \in Products : carts[u][p] = 0 THEN {"EmptyCart"}
    ELSE {k \in {"ProductUnavailable", "InsufficientStock"} :
            \E p \in Products :
               /\ carts[u][p] > 0
               /\ \/ k = "ProductUnavailable" /\ ~products[p].isActive
                  \/ k = "InsufficientStock" /\ carts[u][p] > products[p].stock}

\* C21: calculateOrder and placeOrder are rejected with EmptyCart when the
\* cart has no lines, with ProductUnavailable when a line's product is
\* inactive and with InsufficientStock when a line's quantity is above the
\* product's stock (with the error of a failing line when several fail),
\* and pass the cart checks otherwise; an order is never created with a
\* line whose quantity is above the stock read for it, or with a product
\* that is inactive when the order is created.
C21_CartErrors ==
    [][/\ \A r \in Reqs, u \in Users, c \in CouponCodes :
             ReadCart(r, u, c) =>
                 /\ IF FailingCartRules(u) # {}
                    THEN out'.op = "place" /\ out'.kind \in FailingCartRules(u)
                    ELSE /\ reqs'[r].pc # "idle"
                         /\ \A p \in DOMAIN reqs'[r].cartItems :
                               reqs'[r].cartItems[p].quantity <= products[p].stock
                 /\ \A w \in WalletChoices :
                       IF FailingCartRules(u) # {}
                       THEN CalcKinds(u, c, w[1], w[2]) \subseteq FailingCartRules(u)
                       ELSE CalcKinds(u, c, w[1], w[2]) \cap
                              {"EmptyCart", "ProductUnavailable", "InsufficientStock"} = {}
       /\ \A r \in Reqs :
             PlaceCommitOf(r) =>
                 \A p \in DOMAIN orders'[Len(orders')].orderItems :
                    products[p].isActive]_vars

\* C22: calculateOrder has no side effects: whatever its input and its
\* answer (a breakdown or any error), it leaves carts, stock, wallet
\* balances, coupon counters, UserCoupon rows, orders and transactions as
\* they are, and the requests in flight too.
C22_PreviewReadOnly ==
    [][out'.op = "calc" => UNCHANGED <<dbvars, reqs, compensated>>]_vars

\* C22 witness: calculateOrder has answered a breakdown that uses wallet
\* points, for a cart that is still there, while an order exists.
C22_Witness ==
    /\ out.op = "calc" /\ out.kind = "ok"
    /\ out.breakdown.walletPointsUsed > 0
    /\ \E u \in Users : carts[u] # EmptyCart /\ wallet[u] > 0
    /\ Len(orders) >= 1

\* C23: Price snapshot.  The price of each item of a new order is the unit
\* price the placeOrder call read with the cart, and the items of an
\* existing order (product, quantity, price) are changed by no step: not
\* by a later price update of the product, not by updatePaymentStatus.
C23_PriceSnapshot ==
    [][/\ \A r \in Reqs :
             PlaceCommitOf(r) =>
                 LET items == orders'[Len(orders')].orderItems IN
                 /\ DOMAIN items = DOMAIN reqs[r].cartItems
                 /\ \A p \in DOMAIN items :
                       items[p].price = reqs[r].cartItems[p].price
       /\ \A i \in DOMAIN orders :
             /\ i \in DOMAIN orders'
             /\ orders'[i].orderItems = orders[i].orderItems]_vars

\* C23 witness: an order that was paid or cancelled holds an item at a
\* price the product no longer has.
C23_Witness ==
    \E i \in DOMAIN orders :
        /\ orders[i].paymentStatus # "PENDING"
        /\ \E p \in DOMAIN orders[i].orderItems :
              orders[i].orderItems[p].price # products[p].price

Holding == {i \in DOMAIN orders : orders[i].paymentStatus \in {"PENDING", "SUCCESS"}}

\* C25: Stock conservation.  With no seller changing stock, for every
\* product the stock plus the quantities of the product in the items of
\* the orders whose paymentStatus is PENDING or SUCCESS is the initial
\* stock, in every state reachable by placeOrder and updatePaymentStatus
\* calls.
C25_StockConservation ==
    \A p \in Products :
        products[p].stock
          + SumOver({i \in Holding : p \in DOMAIN orders[i].orderItems},
                    [i \in DOMAIN orders |->
                        IF p \in DOMAIN orders[i].orderItems
                        THEN orders[i].orderItems[p].quantity ELSE 0])
          = InitStock[p]

\* C26: Wallet conservation.  For every user the walletPoints plus the
\* walletPointsUsed of the user's orders whose paymentStatus is PENDING or
\* SUCCESS is the initial walletPoints, in every state reachable by
\* placeOrder and updatePaymentStatus calls: payment callbacks never
\* credit more than the order debited.
C26_WalletConservation ==
    \A u \in Users :
        wallet[u]
          + SumOver({i \in Holding : orders[i].userId = u},
                    [i \in DOMAIN orders |-> orders[i].walletPointsUsed])
          = InitWallet[u]

\* C27: Every order ever created has walletPointsUsed >= 0 and
\* finalAmount <= totalAmount, also when placeOrder applies wallet points
\* automatically (useWalletPoints true, no amount) for a user whose
\* balance is 0 or below 0.
C27_OrderAmounts ==
    \A i \in DOMAIN orders :
        /\ orders[i].walletPointsUsed >= 0
        /\ orders[i].finalAmount <= orders[i].totalAmount

\* C28: A cart is converted into at most one order.  A placeOrder call
\* creates its order only while the cart lines it read are still in the
\* cart: of two concurrent placeOrder calls of one user on the same cart
\* contents, the one that commits second finds the cart converted and
\* creates no order.
C28_CartConvertedOnce ==
    [][\A r \in Reqs :
          PlaceCommitOf(r)
              => \A p \in DOMAIN reqs[r].cartItems :
                    carts[reqs[r].user][p] >= reqs[r].cartItems[p].quantity]_vars

\* C29: Every cart line a successful placeOrder removes is part of the
\* order it creates: when the call commits, each line of the caller's cart
\* (all of them are deleted) is an item of the order, with the quantity
\* the cart holds, also when addToCart ran after placeOrder read the cart.
C29_ClearedLinesOrdered ==
    [][\A r \in Reqs :
          PlaceCommitOf(r)
              => \A p \in Products :
                    carts[reqs[r].user][p] > 0
                        => /\ p \in DOMAIN reqs[r].cartItems
                           /\ reqs[r].cartItems[p].quantity
                                = carts[reqs[r].user][p]]_vars

\* C30: updatePaymentStatus on an order O changes only O's paymentStatus
\* and orderStatus, O's transaction and, for FAILED, the stock of the
\* products of O's items, the walletPoints of O's owner and the usage
\* counters of O's coupon for O's owner.  Every other order, transaction,
\* product, wallet, coupon and UserCoupon row and every cart (the owner's
\* too: FAILED does not refill it) is left as it is.
C30_PaymentFrame ==
    [][\A r \in Reqs :
          PayCommitOf(r)
          => LET i == reqs[r].orderId
                 o == orders[i]
                 failed == reqs[r].paymentStatus = "FAILED"
             IN /\ DOMAIN orders' = DOMAIN orders
                /\ \A j \in DOMAIN orders : j # i => orders'[j] = orders[j]
                /\ orders'[i] = [o EXCEPT !.paymentStatus = orders'[i].paymentStatus,
                                          !.orderStatus = orders'[i].orderStatus]
                /\ DOMAIN transactions' = DOMAIN transactions
                /\ \A t \in DOMAIN transactions :
                      /\ transactions'[t].orderId = transactions[t].orderId
                      /\ transactions[t].orderId # i => transactions'[t] = transactions[t]
                /\ \A p \in Products :
                      /\ products'[p].price = products[p].price
                      /\ products'[p].isActive = products[p].isActive
                      /\ (~failed \/ p \notin DOMAIN o.orderItems)
                            => products'[p] = products[p]
                /\ \A u \in Users :
                      (~failed \/ u # o.userId) => wallet'[u] = wallet[u]
                /\ \A c \in Coupons :
                      (~failed \/ c # o.couponId)
                          => /\ couponUsage'[c] = couponUsage[c]
                             /\ \A u \in Users : userCoupons'[u][c] = userCoupons[u][c]
                /\ \A c \in Coupons, u \in Users :
                      /\ u # o.userId => userCoupons'[u][c] = userCoupons[u][c]
                      /\ userCoupons'[u][c].exists = userCoupons[u][c].exists
                /\ carts' = carts]_vars

\* C30 witness: updatePaymentStatus(FAILED) has committed on an order
\* that used wallet points, and the owner's cart holds a line.
C30_Witness ==
    /\ out.op = "pay" /\ out.kind = "ok"
    /\ orders[out.orderId].paymentStatus = "FAILED"
    /\ orders[out.orderId].walletPointsUsed > 0
    /\ \E p \in Products : carts[orders[out.orderId].userId][p] > 0

====
